---- MODULE Spec2Model ----
(***************************************************************************)
(* Model of marginaliaatlas/code.py: the coordinate machine, the rule      *)
(* pipeline, the diffing renderer (render_all) and the Tk event handlers.  *)
(* The program is single threaded; every handler runs to completion, so    *)
(* each handler is one action.  Handlers are written as operators from a   *)
(* state record to a state record, in the order of the statements of the   *)
(* source, and an action stores the record the handler returns.            *)
(***************************************************************************)
EXTENDS Integers, Sequences, FiniteSets, TLC

VARIABLES
    G_ATTACH,       \* id -> [bbox, color]
    G_CANVAS,       \* id -> render intent and canvas ids
    G_KEYS,         \* insertion order of the keys of G_CANVAS (and G_ATTACH)
    G_DRAG,         \* drag state
    g,              \* module_highlight, hover_canvas_item, camera, zoom, viewport
    selection_set,  \* set of selected item ids
    CUR,            \* registers
    S,              \* snapshot stack of the coordinates machine
    canvas,         \* Tk canvas: live canvas id -> canvas item
    canvas_next,    \* the id Tk gives to the next canvas item
    cursor,         \* cursor option of the canvas widget
    attachments_json, \* the file attachments.json: whether it exists, its entries
    synced,         \* TRUE when the last handler ran a synchronization pass
    button,         \* TRUE while mouse button 1 is held on the canvas
    exc,            \* exception that ended the last handler, or "none"
    last,           \* the last event dispatched and the selection before it
    nevents         \* number of events dispatched

vars == <<G_ATTACH, G_CANVAS, G_KEYS, G_DRAG, g, selection_set, CUR, S,
          canvas, canvas_next, cursor, attachments_json, synced, button, exc,
          last, nevents>>

(* ---------------------------------------------------------------------- *)
(* Values                                                                  *)
(* ---------------------------------------------------------------------- *)

\* Python None where the other values are strings (item ids, module names,
\* corner tags, drag modes).
None == "None"

\* Python None where the other values are Tk canvas ids (positive integers).
NoId == 0

\* Bound of the model: the number of events dispatched in a run.
MaxEvents == 6

ItemIds == {"a", "b", "c"}

\* The inventory (load_inventory): id -> record.  "a" is in module mod1,
\* "b" is in module mod2, "c" is in no module.
G_INV ==
    ("a" :> [symbol |-> "A", modules |-> <<"mod1">>]) @@
    ("b" :> [symbol |-> "B", modules |-> <<"mod2">>]) @@
    ("c" :> [symbol |-> "C", modules |-> <<>>])

SeqToSet(q) == {q[i] : i \in 1..Len(q)}

ModuleNames == UNION {SeqToSet(G_INV[i].modules) : i \in ItemIds}

Corners == <<"nw", "ne", "se", "sw">>

\* Pointer positions of the mouse events and viewport sizes of <Configure>.
EvPos == {<<100, 50>>, <<101, 50>>, <<150, 95>>}
\* Pointer position of the events whose handler does not read it.
RestPos == {<<100, 50>>}
ViewSizes == {<<200, 100>>}

NoEvent == [x |-> 0, y |-> 0, width |-> 0, height |-> 0]
MouseEvent(p) == [x |-> p[1], y |-> p[2], width |-> 0, height |-> 0]
ConfigureEvent(wh) == [x |-> 0, y |-> 0, width |-> wh[1], height |-> wh[2]]

(* ---------------------------------------------------------------------- *)
(* The state record handlers work on                                       *)
(* ---------------------------------------------------------------------- *)

Pack ==
    [G_ATTACH |-> G_ATTACH, G_CANVAS |-> G_CANVAS, G_KEYS |-> G_KEYS,
     G_DRAG |-> G_DRAG, g |-> g, selection_set |-> selection_set,
     CUR |-> CUR, S |-> S, canvas |-> canvas, canvas_next |-> canvas_next,
     cursor |-> cursor, synced |-> FALSE, exc |-> "none"]

Store(s) ==
    /\ G_ATTACH' = s.G_ATTACH
    /\ G_CANVAS' = s.G_CANVAS
    /\ G_KEYS' = s.G_KEYS
    /\ G_DRAG' = s.G_DRAG
    /\ g' = s.g
    /\ selection_set' = s.selection_set
    /\ CUR' = s.CUR
    /\ S' = s.S
    /\ canvas' = s.canvas
    /\ canvas_next' = s.canvas_next
    /\ cursor' = s.cursor
    /\ synced' = s.synced
    /\ exc' = s.exc

\* Python raise: the exception is recorded and the statements after it are
\* skipped by the callers (Tk reports the exception and goes on).
Raise(s, name) == [s EXCEPT !.exc = name]

(* ---------------------------------------------------------------------- *)
(* Register (CUR) support                                                  *)
(* ---------------------------------------------------------------------- *)

iterate_item(s, item_id) == [s EXCEPT !.CUR.item_id = item_id]

item_modules(s) ==
    IF s.CUR.item_id \in DOMAIN G_INV THEN G_INV[s.CUR.item_id].modules ELSE <<>>

(* ---------------------------------------------------------------------- *)
(* Coordinates machine                                                     *)
(* ---------------------------------------------------------------------- *)

load_rect(s, src) ==
    IF src = "attachment"
    THEN IF s.CUR.item_id \in DOMAIN s.G_ATTACH
         THEN LET b == s.G_ATTACH[s.CUR.item_id].bbox
              IN [s EXCEPT !.CUR.x0 = b[1], !.CUR.y0 = b[2],
                           !.CUR.x1 = b[3], !.CUR.y1 = b[4],
                           !.CUR.coord_type = "w"]
         ELSE Raise(s, "KeyError")
    ELSE Raise(s, "ValueError")

store_rect(s, dst) ==
    IF dst = "attachment"
    THEN IF s.CUR.coord_type # "w"
         THEN Raise(s, "RuntimeError")
         ELSE IF s.CUR.item_id \in DOMAIN s.G_ATTACH
              THEN [s EXCEPT !.G_ATTACH[s.CUR.item_id].bbox =
                                 <<s.CUR.x0, s.CUR.y0, s.CUR.x1, s.CUR.y1>>]
              ELSE Raise(s, "KeyError")
    ELSE Raise(s, "ValueError")

load_pt(s, src) ==
    LET c == s.CUR IN
    CASE src = "event" ->
           [s EXCEPT !.CUR.x = c.event.x, !.CUR.y = c.event.y,
                     !.CUR.coord_type = "c"]
      [] src = "center" ->
           [s EXCEPT !.CUR.x = (c.x0 + c.x1) \div 2,
                     !.CUR.y = (c.y0 + c.y1) \div 2]
      [] src = "center-south" ->
           [s EXCEPT !.CUR.x = (c.x0 + c.x1) \div 2, !.CUR.y = c.y1]
      [] src = "nw" -> [s EXCEPT !.CUR.x = c.x0, !.CUR.y = c.y0]
      [] src = "ne" -> [s EXCEPT !.CUR.x = c.x1, !.CUR.y = c.y0]
      [] src = "se" -> [s EXCEPT !.CUR.x = c.x1, !.CUR.y = c.y1]
      [] src = "sw" -> [s EXCEPT !.CUR.x = c.x0, !.CUR.y = c.y1]
      [] src = "label" ->
           LET lc == s.G_CANVAS[c.item_id].label_coord
           IN [s EXCEPT !.CUR.x = lc[1], !.CUR.y = lc[2],
                        !.CUR.coord_type = "w"]
      [] OTHER -> Raise(s, "ValueError")

store_pt(s, dst) ==
    LET c == s.CUR IN
    CASE dst = "nw" -> [s EXCEPT !.CUR.x0 = c.x, !.CUR.y0 = c.y]
      [] dst = "ne" -> [s EXCEPT !.CUR.x1 = c.x, !.CUR.y0 = c.y]
      [] dst = "se" -> [s EXCEPT !.CUR.x1 = c.x, !.CUR.y1 = c.y]
      [] dst = "sw" -> [s EXCEPT !.CUR.x0 = c.x, !.CUR.y1 = c.y]
      [] OTHER -> Raise(s, "ValueError")

get_xy(s) == <<s.CUR.x, s.CUR.y>>

get_xyxy(s) == <<s.CUR.x0, s.CUR.y0, s.CUR.x1, s.CUR.y1>>

\* world -> canvas, on one axis: ((v - cam) * zn) // zd + vc
w_to_c(v, cam, zn, zd, vc) == ((v - cam) * zn) \div zd + vc

\* canvas -> world with the viewport centre left in.
c_to_w_keeps_centre(v, cam, zn, zd, vc) == (v * zd) \div zn + cam

\* canvas -> world, on one axis: ((v - vc) * zd) // zn + cam
c_to_w(v, cam, zn, zd, vc) == ((v - vc) * zd) \div zn + cam

\* project_to that converts towards every target it is given, without the
\* test for an invalid transition.
project_to_unchecked(s, dst) ==
    LET src == s.CUR.coord_type
        c == s.CUR
        zn == s.g.zoom_num
        zd == s.g.zoom_den
        vcx == s.g.canvas_view_w \div 2
        vcy == s.g.canvas_view_h \div 2
        fx(v) == IF dst = "c" THEN w_to_c(v, s.g.cam_x, zn, zd, vcx)
                              ELSE c_to_w(v, s.g.cam_x, zn, zd, vcx)
        fy(v) == IF dst = "c" THEN w_to_c(v, s.g.cam_y, zn, zd, vcy)
                              ELSE c_to_w(v, s.g.cam_y, zn, zd, vcy)
    IN IF src = dst THEN s
       ELSE [s EXCEPT !.CUR.x = fx(c.x), !.CUR.y = fy(c.y),
                      !.CUR.x0 = fx(c.x0), !.CUR.y0 = fy(c.y0),
                      !.CUR.x1 = fx(c.x1), !.CUR.y1 = fy(c.y1),
                      !.CUR.coord_type = dst]

project_to(s, dst) ==
    LET src == s.CUR.coord_type
        c == s.CUR
        zn == s.g.zoom_num
        zd == s.g.zoom_den
        vcx == s.g.canvas_view_w \div 2
        vcy == s.g.canvas_view_h \div 2
        fx(v) == IF dst = "c" THEN w_to_c(v, s.g.cam_x, zn, zd, vcx)
                              ELSE c_to_w(v, s.g.cam_x, zn, zd, vcx)
        fy(v) == IF dst = "c" THEN w_to_c(v, s.g.cam_y, zn, zd, vcy)
                              ELSE c_to_w(v, s.g.cam_y, zn, zd, vcy)
    IN IF src = dst THEN s
       ELSE IF (src = "w" /\ dst = "c") \/ (src = "c" /\ dst = "w")
            THEN [s EXCEPT !.CUR.x = fx(c.x), !.CUR.y = fy(c.y),
                           !.CUR.x0 = fx(c.x0), !.CUR.y0 = fy(c.y0),
                           !.CUR.x1 = fx(c.x1), !.CUR.y1 = fy(c.y1),
                           !.CUR.coord_type = dst]
            ELSE Raise(s, "RuntimeError")

slide_pt(s, dx, dy) == [s EXCEPT !.CUR.x = @ + dx, !.CUR.y = @ + dy]

slide_rect(s, dx, dy) ==
    [s EXCEPT !.CUR.x0 = @ + dx, !.CUR.y0 = @ + dy,
              !.CUR.x1 = @ + dx, !.CUR.y1 = @ + dy]

\* explode_pt with the point as the north-west corner instead of the centre.
explode_pt_from_corner(s, size) ==
    [s EXCEPT !.CUR.x0 = s.CUR.x, !.CUR.y0 = s.CUR.y,
              !.CUR.x1 = s.CUR.x + 2 * size, !.CUR.y1 = s.CUR.y + 2 * size]

explode_pt(s, size) ==
    [s EXCEPT !.CUR.x0 = s.CUR.x - size, !.CUR.y0 = s.CUR.y - size,
              !.CUR.x1 = s.CUR.x + size, !.CUR.y1 = s.CUR.y + size]

(* ---------------------------------------------------------------------- *)
(* Stack ops: S holds (x, y, coord_type) and (x0, y0, x1, y1, coord_type)   *)
(* ---------------------------------------------------------------------- *)

push_pt(s) ==
    [s EXCEPT !.S = Append(@, <<s.CUR.x, s.CUR.y, s.CUR.coord_type>>)]

\* pop_pt that restores the point and not the space tag.
pop_pt_keeps_tag(s) ==
    IF s.S = <<>> THEN Raise(s, "RuntimeError")
    ELSE LET e == s.S[Len(s.S)]
             s1 == [s EXCEPT !.S = SubSeq(@, 1, Len(@) - 1)]
         IN IF Len(e) # 3 THEN Raise(s1, "ValueError")
            ELSE [s1 EXCEPT !.CUR.x = e[1], !.CUR.y = e[2]]

\* S.pop() takes the top entry off before it is unpacked into three names;
\* an entry of five values fails the unpacking.
pop_pt(s) ==
    IF s.S = <<>> THEN Raise(s, "RuntimeError")
    ELSE LET e == s.S[Len(s.S)]
             s1 == [s EXCEPT !.S = SubSeq(@, 1, Len(@) - 1)]
         IN IF Len(e) # 3 THEN Raise(s1, "ValueError")
            ELSE [s1 EXCEPT !.CUR.x = e[1], !.CUR.y = e[2],
                            !.CUR.coord_type = e[3]]

push_rect(s) ==
    [s EXCEPT !.S = Append(@, <<s.CUR.x0, s.CUR.y0, s.CUR.x1, s.CUR.y1,
                                s.CUR.coord_type>>)]

pop_rect(s) ==
    IF s.S = <<>> THEN Raise(s, "RuntimeError")
    ELSE LET e == s.S[Len(s.S)]
             s1 == [s EXCEPT !.S = SubSeq(@, 1, Len(@) - 1)]
         IN IF Len(e) # 5 THEN Raise(s1, "ValueError")
            ELSE [s1 EXCEPT !.CUR.x0 = e[1], !.CUR.y0 = e[2],
                            !.CUR.x1 = e[3], !.CUR.y1 = e[4],
                            !.CUR.coord_type = e[5]]

(* ---------------------------------------------------------------------- *)
(* Selection predicates                                                    *)
(* ---------------------------------------------------------------------- *)

is_selected(s) == s.CUR.item_id \in s.selection_set

is_only_selected(s) == is_selected(s) /\ Cardinality(s.selection_set) = 1

\* next(iter(selection_set)) if len(selection_set) == 1 else None
only_selected(s) ==
    IF Cardinality(s.selection_set) = 1
    THEN CHOOSE i \in s.selection_set : TRUE
    ELSE None

(* ---------------------------------------------------------------------- *)
(* Rules: each writes the render intent of the item in CUR                 *)
(* ---------------------------------------------------------------------- *)

\* rule_default_appearance that widens the outline it finds by one in place
\* of setting it to 1.
rule_default_appearance_widens(s) ==
    LET id == s.CUR.item_id
        b == s.G_ATTACH[id].bbox
    IN [s EXCEPT !.G_CANVAS[id] =
            [@ EXCEPT !.rect_coords = b,
                      !.rect_outline = "white",
                      !.rect_width = @ + 1,
                      !.rect_fill = "#88ccff",
                      !.label_coord = <<b[1] + 5, b[4] + 10>>,
                      !.label_text = G_INV[id].symbol,
                      !.label_color = "white"]]

\* The second definition of rule_default_appearance is the one in force.
rule_default_appearance(s) ==
    LET id == s.CUR.item_id
        b == s.G_ATTACH[id].bbox
    IN [s EXCEPT !.G_CANVAS[id] =
            [@ EXCEPT !.rect_coords = b,
                      !.rect_outline = "white",
                      !.rect_width = 1,
                      !.rect_fill = "#88ccff",
                      !.label_coord = <<b[1] + 5, b[4] + 10>>,
                      !.label_text = G_INV[id].symbol,
                      !.label_color = "white"]]

rule_module_highlight(s) ==
    LET id == s.CUR.item_id
        highlight == s.g.module_highlight
    IN IF highlight # None /\ highlight \in SeqToSet(item_modules(s))
       THEN [s EXCEPT !.G_CANVAS[id] =
                [@ EXCEPT !.rect_width = 3, !.rect_outline = "red"]]
       ELSE s

\* rule_selected_highlight that also drops the module highlight.
rule_selected_highlight_drops_module(s) ==
    LET id == s.CUR.item_id
    IN IF is_selected(s)
       THEN [s EXCEPT !.G_CANVAS[id] =
                [@ EXCEPT !.rect_outline = "yellow", !.rect_width = 3],
                      !.g.module_highlight = None]
       ELSE s

rule_selected_highlight(s) ==
    LET id == s.CUR.item_id
    IN IF is_selected(s)
       THEN [s EXCEPT !.G_CANVAS[id] =
                [@ EXCEPT !.rect_outline = "yellow", !.rect_width = 3]]
       ELSE s

\* rule_handles testing is_selected() in place of is_only_selected().
rule_handles_any_selected(s) ==
    [s EXCEPT !.G_CANVAS[s.CUR.item_id].handles_shouldexist = is_selected(s)]

rule_handles(s) ==
    [s EXCEPT !.G_CANVAS[s.CUR.item_id].handles_shouldexist = is_only_selected(s)]

\* The rules with the module highlight after the selection highlight.
RULES_module_after_selection ==
    <<"rule_default_appearance", "rule_selected_highlight",
      "rule_module_highlight", "rule_handles">>

\* initialize_rules_at_program_start: the order of the rules.
RULES == <<"rule_default_appearance", "rule_module_highlight",
           "rule_selected_highlight", "rule_handles">>

RunRule(name, s) ==
    CASE name = "rule_default_appearance" -> rule_default_appearance(s)
      [] name = "rule_module_highlight" -> rule_module_highlight(s)
      [] name = "rule_selected_highlight" -> rule_selected_highlight(s)
      [] name = "rule_handles" -> rule_handles(s)

RECURSIVE apply_rules_from(_, _)
apply_rules_from(s, i) ==
    IF i > Len(RULES) THEN s ELSE apply_rules_from(RunRule(RULES[i], s), i + 1)

apply_rules(s) == apply_rules_from(s, 1)

\* for item_id in G_CANVAS: iterate_item(item_id); apply_rules()
RECURSIVE foreach_item_from(_, _)
foreach_item_from(s, i) ==
    IF i > Len(s.G_KEYS) THEN s
    ELSE foreach_item_from(apply_rules(iterate_item(s, s.G_KEYS[i])), i + 1)

foreach_item_apply_rules(s) == foreach_item_from(s, 1)

(* ---------------------------------------------------------------------- *)
(* Canvas rendering                                                        *)
(* ---------------------------------------------------------------------- *)

\* A Tk canvas item as create_rectangle / create_text make it.
NewPrim(type, tags) ==
    [type |-> type, tags |-> tags, coords |-> <<0, 0, 0, 0>>,
     outline |-> "", width |-> 1, fill |-> "", text |-> ""]

\* canvas.find_withtag("rendered")
find_rendered(s) == {c \in DOMAIN s.canvas : "rendered" \in s.canvas[c].tags}

\* The rectangle part of render_all making a new rectangle in every pass.
RenderRect_recreates(r) ==
    LET s == r.s
        item == s.CUR.item_id
        D == s.G_CANVAS[item]
    IN IF D.rect_shouldexist
       THEN LET id == s.canvas_next
                s1 == [s EXCEPT
                         !.canvas = (id :> NewPrim("rectangle", {"rendered"})) @@ @,
                         !.canvas_next = @ + 1,
                         !.G_CANVAS[item].rect = id]
                s2 == project_to(load_rect(s1, "attachment"), "c")
                s3 == [s2 EXCEPT !.canvas[id] =
                          [@ EXCEPT !.coords = get_xyxy(s2),
                                    !.outline = D.rect_outline,
                                    !.width = D.rect_width,
                                    !.fill = D.rect_fill]]
            IN [s |-> s3, orphans |-> r.orphans]
       ELSE [s |-> [s EXCEPT !.G_CANVAS[item].rect = NoId], orphans |-> r.orphans]

\* The rectangle part of render_all for the item in r.s.CUR.
RenderRect(r) ==
    LET s == r.s
        item == s.CUR.item_id
        D == s.G_CANVAS[item]
    IN IF D.rect_shouldexist
       THEN LET created == D.rect = NoId
                id == IF created THEN s.canvas_next ELSE D.rect
                s1 == IF created
                      THEN [s EXCEPT
                              !.canvas = (id :> NewPrim("rectangle", {"rendered"})) @@ @,
                              !.canvas_next = @ + 1,
                              !.G_CANVAS[item].rect = id]
                      ELSE s
                s2 == project_to(load_rect(s1, "attachment"), "c")
                s3 == [s2 EXCEPT !.canvas[id] =
                          [@ EXCEPT !.coords = get_xyxy(s2),
                                    !.outline = D.rect_outline,
                                    !.width = D.rect_width,
                                    !.fill = D.rect_fill]]
            IN [s |-> s3,
                orphans |-> IF created THEN r.orphans ELSE r.orphans \ {D.rect}]
       ELSE [s |-> [s EXCEPT !.G_CANVAS[item].rect = NoId], orphans |-> r.orphans]

\* The label part of render_all.
RenderLabel(r) ==
    LET s == r.s
        item == s.CUR.item_id
        D == s.G_CANVAS[item]
    IN IF D.label_shouldexist
       THEN LET created == D.label = NoId
                id == IF created THEN s.canvas_next ELSE D.label
                s1 == IF created
                      THEN [s EXCEPT
                              !.canvas = (id :> NewPrim("text", {"rendered"})) @@ @,
                              !.canvas_next = @ + 1,
                              !.G_CANVAS[item].label = id]
                      ELSE s
                s2 == project_to(load_pt(s1, "label"), "c")
                s3 == [s2 EXCEPT !.canvas[id] =
                          [@ EXCEPT !.coords = get_xy(s2),
                                    !.text = D.label_text,
                                    !.fill = D.label_color]]
            IN [s |-> s3,
                orphans |-> IF created THEN r.orphans ELSE r.orphans \ {D.label}]
       ELSE [s |-> [s EXCEPT !.G_CANVAS[item].label = NoId], orphans |-> r.orphans]

\* The handles part of render_all: the four handles are made as a group.
RenderHandles(r) ==
    LET s == r.s
        item == s.CUR.item_id
        D == s.G_CANVAS[item]
    IN IF D.handles_shouldexist
       THEN LET created == D.handles = <<>>
                hs == IF created
                      THEN [k \in 1..4 |-> s.canvas_next + k - 1]
                      ELSE D.handles
                s1 == IF created
                      THEN [s EXCEPT
                              !.canvas =
                                  [h \in SeqToSet(hs) |->
                                     [NewPrim("rectangle",
                                              {"handle", Corners[h - s.canvas_next + 1],
                                               "rendered"})
                                        EXCEPT !.fill = "#ffcc00",
                                               !.outline = "#000000"]] @@ @,
                              !.canvas_next = @ + 4,
                              !.G_CANVAS[item].handles = hs]
                      ELSE s
                s2 == project_to(load_rect(s1, "attachment"), "c")
                b == get_xyxy(s2)
                corners == <<<<b[1], b[2]>>, <<b[3], b[2]>>,
                             <<b[3], b[4]>>, <<b[1], b[4]>>>>
                s3 == [s2 EXCEPT !.canvas =
                          [c \in DOMAIN @ |->
                             IF \E k \in 1..Len(hs) : hs[k] = c
                             THEN LET k == CHOOSE k \in 1..Len(hs) : hs[k] = c
                                  IN [@[c] EXCEPT !.coords =
                                         <<corners[k][1] - 5, corners[k][2] - 5,
                                           corners[k][1] + 5, corners[k][2] + 5>>]
                             ELSE @[c]]]
            IN [s |-> s3,
                orphans |-> IF created THEN r.orphans
                            ELSE r.orphans \ SeqToSet(D.handles)]
       ELSE [s |-> [s EXCEPT !.G_CANVAS[item].handles = <<>>], orphans |-> r.orphans]

RenderItem(r, item) ==
    RenderHandles(RenderLabel(RenderRect(
        [r EXCEPT !.s = [@ EXCEPT !.CUR.item_id = item]])))

RECURSIVE render_items_from(_, _)
render_items_from(r, i) ==
    IF i > Len(r.s.G_KEYS) THEN r
    ELSE render_items_from(RenderItem(r, r.s.G_KEYS[i]), i + 1)

\* render_all with a sweep that deletes every canvas item the renderer owns.
DeleteOrphans_everything(r) ==
    [r.s EXCEPT !.canvas = [c \in DOMAIN @ \ find_rendered(r.s) |-> @[c]]]

\* render_all without the sweep of the orphan candidates.
DeleteOrphans_no_sweep(r) == r.s

\* canvas.delete on every orphan candidate that is left.
DeleteOrphans(r) ==
    [r.s EXCEPT !.canvas = [c \in DOMAIN @ \ r.orphans |-> @[c]]]

render_all(s) ==
    DeleteOrphans(render_items_from([s |-> s, orphans |-> find_rendered(s)], 1))

sync_all(s) == [render_all(foreach_item_apply_rules(s)) EXCEPT !.synced = TRUE]

(* ---------------------------------------------------------------------- *)
(* Module highlight and selection                                          *)
(* ---------------------------------------------------------------------- *)

\* Tree and detail pane are outside the core: they only read the selection.
sync_tree_selection(s) == s

sync_json_view(s) == s

set_module_highlight(s, module) ==
    IF module = s.g.module_highlight THEN s
    ELSE sync_all([s EXCEPT !.g.module_highlight = module])

toggle_selected(s) ==
    LET item_id == s.CUR.item_id
    IN sync_all([s EXCEPT !.selection_set =
                     IF item_id \in @ THEN @ \ {item_id} ELSE @ \cup {item_id}])

clear_selection(s) ==
    sync_json_view(sync_tree_selection(sync_all([s EXCEPT !.selection_set = {}])))

\* set_selected without the statement that empties the selection first.
set_selected_adds(s) ==
    sync_json_view(sync_tree_selection(sync_all(
        [s EXCEPT !.selection_set = @ \cup {s.CUR.item_id},
                  !.g.module_highlight = None])))

\* set_selected without its synchronization pass.
set_selected_no_pass(s) ==
    sync_json_view(sync_tree_selection(
        [s EXCEPT !.selection_set = {s.CUR.item_id},
                  !.g.module_highlight = None]))

\* set_selected without the statement that clears the module highlight.
set_selected_keeps_highlight(s) ==
    sync_json_view(sync_tree_selection(sync_all(
        [s EXCEPT !.selection_set = {s.CUR.item_id}])))

set_selected(s) ==
    sync_json_view(sync_tree_selection(sync_all(
        [s EXCEPT !.selection_set = {s.CUR.item_id},
                  !.g.module_highlight = None])))

(* ---------------------------------------------------------------------- *)
(* Drag state                                                              *)
(* ---------------------------------------------------------------------- *)

\* clear_drag without the statement that resets the corner.
clear_drag_keeps_corner(s) ==
    [s EXCEPT !.G_DRAG.item_id = None, !.G_DRAG.x = 0, !.G_DRAG.y = 0,
              !.G_DRAG.handle = NoId, !.G_DRAG.mode = None]

clear_drag(s) ==
    [s EXCEPT !.G_DRAG.item_id = None, !.G_DRAG.x = 0, !.G_DRAG.y = 0,
              !.G_DRAG.handle = NoId, !.G_DRAG.corner = None,
              !.G_DRAG.mode = None]

cancel_drag(s) == clear_drag(s)

is_handle(s, canvas_item) ==
    canvas_item \in DOMAIN s.canvas /\ "handle" \in s.canvas[canvas_item].tags

corner_for_handle(s, canvas_item) ==
    LET tags == IF canvas_item \in DOMAIN s.canvas
                THEN s.canvas[canvas_item].tags ELSE {}
        hits == {k \in 1..4 : Corners[k] \in tags}
    IN IF hits = {} THEN None
       ELSE Corners[CHOOSE k \in hits : \A j \in hits : k <= j]

\* First key of G_CANVAS whose rect, label or handles hold the canvas item.
item_id_for_canvas_item(s, canvas_item) ==
    LET owns(i) == LET D == s.G_CANVAS[s.G_KEYS[i]]
                   IN canvas_item = D.rect \/ canvas_item = D.label
                      \/ canvas_item \in SeqToSet(D.handles)
        hits == {i \in 1..Len(s.G_KEYS) : owns(i)}
    IN IF hits = {} THEN None
       ELSE s.G_KEYS[CHOOSE i \in hits : \A j \in hits : i <= j]

\* cursor_for_item with the move cue on handles too.
cursor_for_item_no_resize_cue(s, canvas_item) ==
    IF canvas_item = NoId THEN "" ELSE "fleur"

cursor_for_item(s, canvas_item) ==
    IF canvas_item = NoId THEN ""
    ELSE IF is_handle(s, canvas_item) THEN "sizing" ELSE "fleur"

start_drag(s, mode) ==
    LET ev == s.CUR.event
        s1 == [clear_drag(s) EXCEPT !.G_DRAG.mode = mode,
                                    !.G_DRAG.x = ev.x, !.G_DRAG.y = ev.y]
        top == s.CUR.top
    IN CASE mode = "item" ->
              LET s2 == [s1 EXCEPT
                           !.G_DRAG.item_id = s.CUR.top_item_id,
                           !.G_DRAG.canvas_item = top,
                           !.G_DRAG.handle =
                               IF top # NoId /\ is_handle(s, top) THEN top ELSE NoId,
                           !.G_DRAG.corner =
                               IF top # NoId /\ is_handle(s, top)
                               THEN corner_for_handle(s, top) ELSE None]
              IN IF ~is_selected(s2) THEN set_selected(s2) ELSE s2
         [] mode = "pan" ->
              [s1 EXCEPT !.G_DRAG.item_id = None, !.G_DRAG.canvas_item = NoId,
                         !.G_DRAG.handle = NoId, !.G_DRAG.corner = None]
         [] OTHER -> Raise(s1, "ValueError")

\* apply_drag with the resized rectangle clamped so that it never inverts.
apply_drag_clamped(s, item_id, dx, dy) ==
    LET s1 == load_rect(s, "attachment")
        s2 == IF s1.G_DRAG.handle # NoId
              THEN LET c == s1.G_DRAG.corner
                   IN store_pt(slide_pt(load_pt(s1, c), dx, dy), c)
              ELSE slide_rect(s1, dx, dy)
        s3 == [s2 EXCEPT
                 !.CUR.x1 = IF @ < s2.CUR.x0 THEN s2.CUR.x0 ELSE @,
                 !.CUR.y1 = IF @ < s2.CUR.y0 THEN s2.CUR.y0 ELSE @]
    IN store_rect(s3, "attachment")

apply_drag(s, item_id, dx, dy) ==
    LET s1 == load_rect(s, "attachment")
        s2 == IF s1.G_DRAG.handle # NoId
              THEN LET c == s1.G_DRAG.corner
                   IN store_pt(slide_pt(load_pt(s1, c), dx, dy), c)
              ELSE slide_rect(s1, dx, dy)
    IN store_rect(s2, "attachment")

(* ---------------------------------------------------------------------- *)
(* Attachment lifecycle                                                    *)
(* ---------------------------------------------------------------------- *)

AppendKey(keys, item_id) ==
    IF item_id \in SeqToSet(keys) THEN keys ELSE Append(keys, item_id)

RemoveKey(keys, item_id) == SelectSeq(keys, LAMBDA k : k # item_id)

\* attach_new_square up to and including the assignment of G_ATTACH[item_id].
attach_new_square_model(s) ==
    LET size == 40
        item_id == only_selected(s)
        s1 == explode_pt(project_to(load_pt(iterate_item(s, item_id), "event"), "w"),
                         size \div 2)
    IN [s1 EXCEPT !.G_ATTACH =
           (item_id :> [bbox |-> get_xyxy(s1), color |-> "#88ccff"]) @@ @]

attach_new_square(s) ==
    LET item_id == only_selected(s)
        s2 == attach_new_square_model(s)
        b == s2.G_ATTACH[item_id].bbox
        s3 == slide_pt(load_pt(s2, "sw"), 5, 10)
        s4 == [s3 EXCEPT
                 !.G_CANVAS = (item_id :>
                     [rect |-> NoId, label |-> NoId, handles |-> <<>>,
                      rect_shouldexist |-> TRUE,
                      label_shouldexist |-> TRUE,
                      handles_shouldexist |-> FALSE,
                      rect_coords |-> b,
                      rect_outline |-> "white",
                      rect_width |-> 1,
                      rect_fill |-> "#88ccff",
                      label_coord |-> get_xy(s3),
                      label_text |-> G_INV[item_id].symbol,
                      label_color |-> "white"]) @@ @,
                 !.G_KEYS = AppendKey(@, item_id)]
    IN sync_all(s4)

\* The first del statement with the attachment as its target.
delete_first_attachment(s, item_id) ==
    [s EXCEPT !.G_ATTACH = [i \in DOMAIN @ \ {item_id} |-> @[i]]]

\* del G_CANVAS[item_id]
delete_first(s, item_id) ==
    [s EXCEPT !.G_CANVAS = [i \in DOMAIN @ \ {item_id} |-> @[i]],
              !.G_KEYS = RemoveKey(@, item_id)]

\* del G_CANVAS[item_id]; del G_ATTACH[item_id]
delete_pair(s, item_id) ==
    [delete_first(s, item_id) EXCEPT
        !.G_ATTACH = [i \in DOMAIN @ \ {item_id} |-> @[i]]]

\* The first statement reads g["item_id"]; g has no such key.
delete_attachment(s) ==
    IF "item_id" \notin DOMAIN s.g
    THEN Raise(s, "KeyError")
    ELSE LET item_id == s.g.item_id
             s1 == IF is_selected(s) THEN toggle_selected(s) ELSE s
             s2 == IF item_id = s1.G_DRAG.item_id THEN cancel_drag(s1) ELSE s1
         IN IF item_id \in DOMAIN s2.G_CANVAS /\ item_id \in DOMAIN s2.G_ATTACH
            THEN delete_pair(s2, item_id)
            ELSE Raise(s2, "KeyError")

(* ---------------------------------------------------------------------- *)
(* Event handlers                                                          *)
(* ---------------------------------------------------------------------- *)

\* The iids populate_tree_grouped_by_module gives the tree rows:
\* "module::<m>", "leaf::<m>::<id>", and for items in no module the folder
\* "module::<none>" and the bare item id.
Ungrouped == {i \in ItemIds : G_INV[i].modules = <<>>}

TreeIids ==
    {[kind |-> "module", module |-> m, item |-> None] : m \in ModuleNames}
    \cup {[kind |-> "leaf", module |-> mi[1], item |-> mi[2]] :
             mi \in {q \in ModuleNames \X ItemIds :
                        q[1] \in SeqToSet(G_INV[q[2]].modules)}}
    \cup (IF Ungrouped = {} THEN {}
          ELSE {[kind |-> "module", module |-> "<none>", item |-> None]}
               \cup {[kind |-> "bare", module |-> None, item |-> i] : i \in Ungrouped})

\* tree.selection() is empty: kind "empty".
NoTreeSelection == [kind |-> "empty", module |-> None, item |-> None]

dispatch_event(s, event, top) ==
    LET item_id == IF top # NoId THEN item_id_for_canvas_item(s, top) ELSE None
    IN iterate_item([s EXCEPT !.CUR.event = event, !.CUR.top = top,
                              !.CUR.top_item_id = item_id], item_id)

on_tree_select(s, iid) ==
    CASE iid.kind = "empty" -> s
      [] iid.kind = "module" -> set_module_highlight(clear_selection(s), iid.module)
      [] iid.kind = "leaf" -> set_selected(iterate_item(s, iid.item))
      [] OTHER -> s

\* for item_id in set(selection_set): iterate_item(item_id); delete_attachment()
\* order is the order in which the set is iterated.
RECURSIVE on_delete_key_from(_, _, _)
on_delete_key_from(s, order, i) ==
    IF i > Len(order) \/ s.exc # "none" THEN s
    ELSE on_delete_key_from(delete_attachment(iterate_item(s, order[i])), order, i + 1)

on_delete_key(s, order) == on_delete_key_from(s, order, 1)

on_canvas_hover(s) ==
    LET item == s.CUR.top
    IN IF item = s.g.hover_canvas_item THEN s
       ELSE [s EXCEPT !.g.hover_canvas_item = item,
                      !.cursor = cursor_for_item(s, item)]

on_canvas_mouse_leaves(s) ==
    [s EXCEPT !.g.hover_canvas_item = NoId, !.cursor = ""]

\* on_canvas_button_press without the test that the sole selected item has
\* no render intent yet.
on_canvas_button_press_reattaches(s) ==
    LET selected_item_id == only_selected(s)
    IN IF s.CUR.top = NoId /\ selected_item_id # None
       THEN attach_new_square(s)
       ELSE start_drag(s, IF s.CUR.top_item_id # None THEN "item" ELSE "pan")

on_canvas_button_press(s) ==
    LET selected_item_id == only_selected(s)
    IN IF s.CUR.top = NoId /\ selected_item_id # None
          /\ selected_item_id \notin DOMAIN s.G_CANVAS
       THEN attach_new_square(s)
       ELSE start_drag(s, IF s.CUR.top_item_id # None THEN "item" ELSE "pan")

\* on_canvas_motion without the test that the drag target still has a
\* render intent.
on_canvas_motion_unchecked(s) ==
    LET event == s.CUR.event
        dx == event.x - s.G_DRAG.x
        dy == event.y - s.G_DRAG.y
    IN CASE s.G_DRAG.mode = "pan" ->
              sync_all([s EXCEPT
                  !.g.cam_x = @ - ((dx * s.g.zoom_den) \div s.g.zoom_num),
                  !.g.cam_y = @ - ((dy * s.g.zoom_den) \div s.g.zoom_num),
                  !.G_DRAG.x = event.x, !.G_DRAG.y = event.y])
         [] s.G_DRAG.mode = "item" ->
              LET item_id == s.G_DRAG.item_id
                  s1 == iterate_item(s, item_id)
                  s2 == apply_drag(s1, item_id, dx, dy)
                  s3 == IF s2.exc # "none" THEN s2 ELSE sync_all(s2)
              IN IF s3.exc # "none" THEN s3
                 ELSE [s3 EXCEPT !.G_DRAG.x = event.x, !.G_DRAG.y = event.y]
         [] OTHER -> s

\* on_canvas_motion whose pan branch also empties the selection.
on_canvas_motion_pan_deselects(s) ==
    LET event == s.CUR.event
        dx == event.x - s.G_DRAG.x
        dy == event.y - s.G_DRAG.y
    IN CASE s.G_DRAG.mode = "pan" ->
              sync_all([s EXCEPT
                  !.g.cam_x = @ - ((dx * s.g.zoom_den) \div s.g.zoom_num),
                  !.g.cam_y = @ - ((dy * s.g.zoom_den) \div s.g.zoom_num),
                  !.G_DRAG.x = event.x, !.G_DRAG.y = event.y,
                  !.selection_set = {}])
         [] s.G_DRAG.mode = "item" ->
              LET item_id == s.G_DRAG.item_id
                  s1 == iterate_item(s, item_id)
              IN IF item_id = None \/ item_id \notin DOMAIN s1.G_CANVAS
                 THEN cancel_drag(s1)
                 ELSE LET s2 == apply_drag(s1, item_id, dx, dy)
                          s3 == IF s2.exc # "none" THEN s2 ELSE sync_all(s2)
                      IN IF s3.exc # "none" THEN s3
                         ELSE [s3 EXCEPT !.G_DRAG.x = event.x, !.G_DRAG.y = event.y]
         [] OTHER -> s

on_canvas_motion(s) ==
    LET event == s.CUR.event
        dx == event.x - s.G_DRAG.x
        dy == event.y - s.G_DRAG.y
    IN CASE s.G_DRAG.mode = "pan" ->
              sync_all([s EXCEPT
                  !.g.cam_x = @ - ((dx * s.g.zoom_den) \div s.g.zoom_num),
                  !.g.cam_y = @ - ((dy * s.g.zoom_den) \div s.g.zoom_num),
                  !.G_DRAG.x = event.x, !.G_DRAG.y = event.y])
         [] s.G_DRAG.mode = "item" ->
              LET item_id == s.G_DRAG.item_id
                  s1 == iterate_item(s, item_id)
              IN IF item_id = None \/ item_id \notin DOMAIN s1.G_CANVAS
                 THEN cancel_drag(s1)
                 ELSE LET s2 == apply_drag(s1, item_id, dx, dy)
                          s3 == IF s2.exc # "none" THEN s2 ELSE sync_all(s2)
                      IN IF s3.exc # "none" THEN s3
                         ELSE [s3 EXCEPT !.G_DRAG.x = event.x, !.G_DRAG.y = event.y]
         [] OTHER -> s

\* on_canvas_button_release without cancel_drag.
on_canvas_button_release_keeps_drag(s) ==
    [s EXCEPT !.g.hover_canvas_item = NoId, !.cursor = ""]

on_canvas_button_release(s) ==
    [cancel_drag(s) EXCEPT !.g.hover_canvas_item = NoId, !.cursor = ""]

\* on_canvas_configure that also doubles the zoom.
on_canvas_configure_zooms(s) ==
    sync_all([s EXCEPT !.g.canvas_view_w = s.CUR.event.width,
                       !.g.canvas_view_h = s.CUR.event.height,
                       !.g.zoom_num = 2])

on_canvas_configure(s) ==
    sync_all([s EXCEPT !.g.canvas_view_w = s.CUR.event.width,
                       !.g.canvas_view_h = s.CUR.event.height])

(* ---------------------------------------------------------------------- *)
(* Initial state: the module's globals, then main()'s load_attachments()    *)
(* ---------------------------------------------------------------------- *)

EmptyMap == [i \in {} |-> 0]

InitCUR ==
    [item_id |-> None, event |-> NoEvent, top |-> NoId, top_item_id |-> None,
     x |-> 0, y |-> 0, x0 |-> 0, y0 |-> 0, x1 |-> 0, y1 |-> 0,
     coord_type |-> "w"]

InitDrag ==
    [item_id |-> None, x |-> 0, y |-> 0, handle |-> NoId, corner |-> None,
     mode |-> None, canvas_item |-> NoId]

InitG(zn, zd) ==
    [module_highlight |-> None, hover_canvas_item |-> NoId,
     cam_x |-> 0, cam_y |-> 0, zoom_num |-> zn, zoom_den |-> zd,
     canvas_view_w |-> 0, canvas_view_h |-> 0]

\* last: the event or call made last (op, the canvas item under the pointer,
\* the pointer position, the tree row or call argument) and what the
\* selection, the highlight, the attached ids, the live canvas items and
\* the drag mode were before it.
NoLast ==
    [op |-> "init", top |-> NoId, x |-> 0, y |-> 0,
     iid |-> NoTreeSelection, sel |-> {}, hl |-> None, att |-> {},
     live |-> {}, mode |-> None]

\* The globals as the module's top level leaves them, with an empty canvas.
Globals(zn, zd) ==
    [G_ATTACH |-> EmptyMap, G_CANVAS |-> EmptyMap, G_KEYS |-> <<>>,
     G_DRAG |-> InitDrag, g |-> InitG(zn, zd), selection_set |-> {},
     CUR |-> InitCUR, S |-> <<>>, canvas |-> EmptyMap, canvas_next |-> 1,
     cursor |-> "", synced |-> FALSE, exc |-> "none"]

\* An attachments file: whether it exists and its entries in file order
\* (color None: the entry has no "color" key).
NoFile == [exists |-> FALSE, entries |-> <<>>]

\* The body of the rebuild loop of load_attachments for one entry.  cx is
\* (x0 + x1) / 2 in the source, a float; the rules overwrite label_coord in
\* the sync_all that ends load_attachments before anything reads it.
LoadEntry(s, e) ==
    IF e.id \notin DOMAIN G_INV THEN s
    ELSE LET b == e.bbox
             color == IF e.color = None THEN "#88ccff" ELSE e.color
         IN [s EXCEPT
               !.G_ATTACH = (e.id :> [bbox |-> b, color |-> color]) @@
                            [i \in DOMAIN @ \ {e.id} |-> @[i]],
               !.G_CANVAS = (e.id :>
                   [rect |-> NoId, label |-> NoId, handles |-> <<>>,
                    rect_shouldexist |-> TRUE,
                    label_shouldexist |-> TRUE,
                    handles_shouldexist |-> FALSE,
                    rect_coords |-> b,
                    rect_outline |-> "white",
                    rect_width |-> 1,
                    rect_fill |-> color,
                    label_coord |-> <<(b[1] + b[3]) \div 2, b[4] + 10>>,
                    label_text |-> G_INV[e.id].symbol,
                    label_color |-> "white"]) @@
                   [i \in DOMAIN @ \ {e.id} |-> @[i]],
               !.G_KEYS = AppendKey(@, e.id)]

\* load_attachments from the first loop on.  pc "clear": the loop over
\* keys = list(G_CANVAS.keys()) at its i-th key (iterate_item, then
\* delete_attachment); pc "rebuild": the loop over the file's entries at
\* its i-th entry, and after it sync_all.
RECURSIVE load_attachments_from(_, _, _, _, _)
load_attachments_from(s, file, keys, pc, i) ==
    IF pc = "clear"
    THEN IF s.exc # "none" THEN s
         ELSE IF i > Len(keys)
              THEN load_attachments_from(s, file, keys, "rebuild", 1)
              ELSE load_attachments_from(delete_attachment(iterate_item(s, keys[i])),
                                         file, keys, "clear", i + 1)
    ELSE IF i > Len(file.entries)
         THEN sync_all(s)
         ELSE load_attachments_from(LoadEntry(s, file.entries[i]),
                                    file, keys, "rebuild", i + 1)

\* The keys save_attachments adds for the pane layout and the window.
ReservedKeys == {"_layout", "_window"}

\* data.pop("_layout", None); data.pop("_window", None)
PopReserved(file) ==
    [file EXCEPT !.entries = SelectSeq(@, LAMBDA e : e.id \notin ReservedKeys)]

load_attachments(s, file) ==
    IF ~file.exists THEN s
    ELSE load_attachments_from(s, PopReserved(file), s.G_KEYS, "clear", 1)

\* The value json.dump writes under a reserved key (not a bbox / color dict).
ReservedEntry(key) == [id |-> key, bbox |-> <<>>, color |-> None]

\* The entries of data before the reserved keys are set: one per attachment,
\* in the order of G_ATTACH.
RECURSIVE SavedEntries(_, _)
SavedEntries(s, i) ==
    IF i > Len(s.G_KEYS) THEN <<>>
    ELSE <<[id |-> s.G_KEYS[i],
            bbox |-> s.G_ATTACH[s.G_KEYS[i]].bbox,
            color |-> s.G_ATTACH[s.G_KEYS[i]].color]>>
         \o SavedEntries(s, i + 1)

\* save_attachments: the file it writes.  No id of the inventory is a
\* reserved key, so the two reserved keys are new keys of data and come last.
save_attachments(s) ==
    [exists |-> TRUE,
     entries |-> SavedEntries(s, 1)
                 \o <<ReservedEntry("_layout"), ReservedEntry("_window")>>]

\* The variables hold the state record s, with l as the record of the last
\* event.
StartWith(s, l) ==
    /\ G_ATTACH = s.G_ATTACH
    /\ G_CANVAS = s.G_CANVAS
    /\ G_KEYS = s.G_KEYS
    /\ G_DRAG = s.G_DRAG
    /\ g = s.g
    /\ selection_set = s.selection_set
    /\ CUR = s.CUR
    /\ S = s.S
    /\ canvas = s.canvas
    /\ canvas_next = s.canvas_next
    /\ cursor = s.cursor
    /\ synced = s.synced
    /\ exc = s.exc
    /\ button = FALSE
    /\ last = l
    /\ nevents = 0

Start(s) == StartWith(s, NoLast)

\* main(): the globals, then load_attachments() on the attachments file.
InitWith(zn, zd, file) ==
    \E loaded \in {load_attachments(Globals(zn, zd), file)} :
        /\ Start(loaded)
        /\ attachments_json = file

Init == InitWith(1, 1, NoFile)

(* ---------------------------------------------------------------------- *)
(* Actions: one per Tk binding                                             *)
(* ---------------------------------------------------------------------- *)

Live == DOMAIN canvas

\* What every action does besides running its handler.
Dispatched(s, op, top, p, iid) ==
    /\ nevents < MaxEvents
    /\ Store(s)
    /\ last' = [op |-> op, top |-> top, x |-> p[1], y |-> p[2], iid |-> iid,
                sel |-> selection_set, hl |-> g.module_highlight,
                att |-> DOMAIN G_ATTACH, live |-> DOMAIN canvas,
                mode |-> G_DRAG.mode]
    /\ nevents' = nevents + 1

\* An action of a handler that does not write attachments.json.
Handled(s, op, top, p, iid) ==
    /\ Dispatched(s, op, top, p, iid)
    /\ UNCHANGED attachments_json

\* The canvas item under the pointer when the event is not a press or a
\* hover (the handlers of these events do not read it).
KeyTops == {NoId}
DragTops == {NoId}

TreeSelect ==
    \E iid \in TreeIids \cup {NoTreeSelection}, top \in KeyTops :
        /\ Handled(on_tree_select(dispatch_event(Pack, NoEvent, top), iid),
                   "tree", top, <<0, 0>>, iid)
        /\ UNCHANGED button

\* All orders in which a set can be iterated.
Orders(set) ==
    {q \in [1..Cardinality(set) -> set] : \A e \in set : \E k \in DOMAIN q : q[k] = e}

DeleteKey ==
    \E top \in KeyTops, order \in Orders(selection_set) :
        /\ Handled(on_delete_key(dispatch_event(Pack, NoEvent, top), order),
                   "delete", top, <<0, 0>>, NoTreeSelection)
        /\ UNCHANGED button

Hover ==
    \E p \in RestPos, top \in Live \cup {NoId} :
        /\ ~button
        /\ Handled(on_canvas_hover(dispatch_event(Pack, MouseEvent(p), top)),
                   "hover", top, p, NoTreeSelection)
        /\ UNCHANGED button

MouseLeaves ==
    /\ ~button
    /\ Handled(on_canvas_mouse_leaves(dispatch_event(Pack, NoEvent, NoId)),
               "leave", NoId, <<0, 0>>, NoTreeSelection)
    /\ UNCHANGED button

Press ==
    \E p \in EvPos, top \in Live \cup {NoId} :
        /\ ~button
        /\ Handled(on_canvas_button_press(dispatch_event(Pack, MouseEvent(p), top)),
                   "press", top, p, NoTreeSelection)
        /\ button' = TRUE

Motion ==
    \E p \in EvPos, top \in DragTops :
        /\ button
        /\ Handled(on_canvas_motion(dispatch_event(Pack, MouseEvent(p), top)),
                   "motion", top, p, NoTreeSelection)
        /\ UNCHANGED button

Release ==
    \E p \in RestPos, top \in DragTops :
        /\ button
        /\ Handled(on_canvas_button_release(dispatch_event(Pack, MouseEvent(p), top)),
                   "release", top, p, NoTreeSelection)
        /\ button' = FALSE

Configure ==
    \E wh \in ViewSizes, top \in KeyTops :
        /\ Handled(on_canvas_configure(dispatch_event(Pack, ConfigureEvent(wh), top)),
                   "configure", top, <<0, 0>>, NoTreeSelection)
        /\ UNCHANGED button

Next ==
    \/ TreeSelect
    \/ DeleteKey
    \/ Hover
    \/ MouseLeaves
    \/ Press
    \/ Motion
    \/ Release
    \/ Configure

Spec == Init /\ [][Next]_vars

(* ---------------------------------------------------------------------- *)
(* The selection and highlight operations called on their own              *)
(* ---------------------------------------------------------------------- *)

CallArg(module, item) == [kind |-> "call", module |-> module, item |-> item]

\* Arguments of the direct calls.
CallItems == {"a", "b"}
HighlightArgs == {"mod1", None}

CallSetSelected ==
    \E i \in CallItems :
        /\ Handled(set_selected(iterate_item(Pack, i)),
                   "set_selected", NoId, <<0, 0>>, CallArg(None, i))
        /\ UNCHANGED button

CallToggleSelected ==
    \E i \in CallItems :
        /\ Handled(toggle_selected(iterate_item(Pack, i)),
                   "toggle_selected", NoId, <<0, 0>>, CallArg(None, i))
        /\ UNCHANGED button

CallClearSelection ==
    /\ Handled(clear_selection(Pack),
               "clear_selection", NoId, <<0, 0>>, CallArg(None, None))
    /\ UNCHANGED button

CallSetModuleHighlight ==
    \E m \in HighlightArgs :
        /\ Handled(set_module_highlight(Pack, m),
                   "set_module_highlight", NoId, <<0, 0>>, CallArg(m, None))
        /\ UNCHANGED button

NextAPI ==
    \/ Next
    \/ CallSetSelected
    \/ CallToggleSelected
    \/ CallClearSelection
    \/ CallSetModuleHighlight

\* The event handlers together with direct calls of the four operations of
\* the selection and highlight model.
SpecAPI == Init /\ [][NextAPI]_vars

(* ---------------------------------------------------------------------- *)
(* An attachment and its render intent removed between two events          *)
(* ---------------------------------------------------------------------- *)

\* The attachments file main() finds: one item placed, and an entry whose id
\* is no longer in the inventory.
BootFile ==
    [exists |-> TRUE,
     entries |-> <<[id |-> "a", bbox |-> <<0, 0, 40, 40>>, color |-> None],
                   [id |-> "z", bbox |-> <<60, 0, 100, 40>>, color |-> "#ff8800"]>>]

InitBoot == InitWith(1, 1, BootFile)

RemovePair ==
    \E i \in DOMAIN G_CANVAS :
        /\ Handled(delete_pair(Pack, i),
                   "remove", NoId, <<0, 0>>, CallArg(None, i))
        /\ UNCHANGED button

NextRemoval ==
    \/ Next
    \/ RemovePair

SpecRemoval == InitBoot /\ [][NextRemoval]_vars

(* ---------------------------------------------------------------------- *)
(* The program with another zoom written in g                              *)
(* ---------------------------------------------------------------------- *)

\* zoom numerator / denominator
ZoomSet == {<<1, 1>>, <<2, 1>>, <<1, 2>>}

InitZ == \E z \in ZoomSet : InitWith(z[1], z[2], NoFile)

SpecZ == InitZ /\ [][Next]_vars

(* ---------------------------------------------------------------------- *)
(* <Control-s> and <Control-o> together with the handlers that select,     *)
(* place and drag                                                          *)
(* ---------------------------------------------------------------------- *)

SaveKey ==
    \E top \in KeyTops :
        /\ Dispatched(dispatch_event(Pack, NoEvent, top),
                      "save", top, <<0, 0>>, NoTreeSelection)
        /\ attachments_json' = save_attachments(Pack)
        /\ UNCHANGED button

LoadKey ==
    \E top \in KeyTops :
        \E s \in {dispatch_event(Pack, NoEvent, top)} :
            \E loaded \in {load_attachments(s, attachments_json)} :
                /\ Handled(loaded, "load", top, <<0, 0>>, NoTreeSelection)
                /\ UNCHANGED button

\* main() finds no attachments.json, or the one of BootFile.
InitFile == \E file \in {NoFile, BootFile} : InitWith(1, 1, file)

NextFile ==
    \/ TreeSelect
    \/ Press
    \/ Motion
    \/ Release
    \/ SaveKey
    \/ LoadKey

SpecFile == InitFile /\ [][NextFile]_vars

(* ---------------------------------------------------------------------- *)
(* The coordinates machine on its own: the registers, the stack and the    *)
(* camera start from drawn values and every step is one call of one of its *)
(* operations.                                                             *)
(* ---------------------------------------------------------------------- *)

MaxOps == 5

\* camera positions, zooms (numerator, denominator), viewport sizes, points
\* and space tags ("s" is no space project_to knows)
MCams == {<<0, 0>>, <<7, -3>>}
MZooms == {<<1, 1>>, <<2, 1>>, <<1, 2>>, <<1, 3>>, <<3, 2>>}
MViews == {<<0, 0>>, <<201, 100>>}
MPoints == {<<0, 0>>, <<5, -4>>, <<-7, 10>>}
MSpaces == {"w", "c", "s"}

\* The globals with the camera, zoom and viewport set and a point, the
\* rectangle around it and a space tag in the registers.
MGlobals(cam, z, view, p, ct) ==
    [Globals(z[1], z[2]) EXCEPT
        !.g.cam_x = cam[1], !.g.cam_y = cam[2],
        !.g.canvas_view_w = view[1], !.g.canvas_view_h = view[2],
        !.CUR.x = p[1], !.CUR.y = p[2],
        !.CUR.x0 = p[1] - 1, !.CUR.y0 = p[2] - 2,
        !.CUR.x1 = p[1] + 4, !.CUR.y1 = p[2] + 2,
        !.CUR.coord_type = ct]

\* The record of the last call: the operation and its argument, the
\* registers and the stack before it, the registers and the call before
\* that, the registers as they were at each push that is still on the
\* stack (marks), and the mark the call took off.
MNoLast(cur) ==
    [op |-> "init", arg |-> None, cur |-> cur, stack |-> <<>>,
     prev |-> cur, prevop |-> "init", prevarg |-> None,
     marks |-> <<>>, popped |-> cur]

MInit(cams, zooms, views, points, spaces) ==
    \E cam \in cams, z \in zooms, view \in views, p \in points, ct \in spaces :
        /\ StartWith(MGlobals(cam, z, view, p, ct),
                     MNoLast(MGlobals(cam, z, view, p, ct).CUR))
        /\ attachments_json = NoFile

MCalled(s, op, arg) ==
    /\ nevents < MaxOps
    /\ Store(s)
    /\ last' = [op |-> op, arg |-> arg, cur |-> CUR, stack |-> S,
                prev |-> last.cur, prevop |-> last.op, prevarg |-> last.arg,
                marks |-> IF op \in {"push_pt", "push_rect"}
                          THEN Append(last.marks, CUR)
                          ELSE IF op \in {"pop_pt", "pop_rect"} /\ S # <<>>
                               THEN SubSeq(last.marks, 1, Len(last.marks) - 1)
                               ELSE last.marks,
                popped |-> IF op \in {"pop_pt", "pop_rect"} /\ S # <<>>
                           THEN last.marks[Len(last.marks)]
                           ELSE CUR]
    /\ nevents' = nevents + 1
    /\ UNCHANGED <<button, attachments_json>>

CallProjectTo ==
    \E dst \in MSpaces : MCalled(project_to(Pack, dst), "project_to", dst)

CallPushPt == MCalled(push_pt(Pack), "push_pt", None)

CallPopPt == MCalled(pop_pt(Pack), "pop_pt", None)

CallPushRect == MCalled(push_rect(Pack), "push_rect", None)

CallPopRect == MCalled(pop_rect(Pack), "pop_rect", None)

CallSlidePt == MCalled(slide_pt(Pack, 3, -2), "slide_pt", None)

CallSlideRect == MCalled(slide_rect(Pack, -1, 2), "slide_rect", None)

CallLoadPt ==
    \E src \in {"nw", "center"} : MCalled(load_pt(Pack, src), "load_pt", src)

CallStorePt == MCalled(store_pt(Pack, "se"), "store_pt", "se")

CallExplodePt == MCalled(explode_pt(Pack, 2), "explode_pt", None)

\* Projection only, from every drawn camera, zoom, viewport, point and tag.
InitProject == MInit(MCams, MZooms, MViews, MPoints, MSpaces)

NextProject ==
    \/ CallProjectTo
    \/ CallSlidePt

SpecProject == InitProject /\ [][NextProject]_vars

\* All the register and stack operations, from two zooms and one point.
InitStack ==
    MInit({<<7, -3>>}, {<<1, 1>>, <<1, 2>>}, {<<201, 100>>}, {<<5, -4>>}, {"w"})

NextStack ==
    \/ CallProjectTo
    \/ CallPushPt
    \/ CallPopPt
    \/ CallPushRect
    \/ CallPopRect
    \/ CallSlidePt
    \/ CallSlideRect
    \/ CallLoadPt
    \/ CallStorePt
    \/ CallExplodePt

SpecStack == InitStack /\ [][NextStack]_vars

(* ---------------------------------------------------------------------- *)
(* Properties                                                              *)
(* ---------------------------------------------------------------------- *)

\* The canvas ids stored in the render intent of item i.
PrimsOf(i) ==
    ({G_CANVAS[i].rect, G_CANVAS[i].label} \cup SeqToSet(G_CANVAS[i].handles)) \ {NoId}

\* The live canvas items the renderer owns.
Rendered == {c \in DOMAIN canvas : "rendered" \in canvas[c].tags}

Flag(b) == IF b THEN 1 ELSE 0

\* C1: in every state the event handlers reach, the selection set and the
\* module highlight are not both non-empty / non-null.
C1_Exclusive == ~(selection_set # {} /\ g.module_highlight # None)

\* A module row was selected in the tree while an item was selected.
C1_Witness ==
    /\ last.op = "tree" /\ last.iid.kind = "module"
    /\ last.sel # {}
    /\ g.module_highlight = last.iid.module
    /\ selection_set = {}

C3_PrimitiveConservation ==
    /\ \A i \in DOMAIN G_CANVAS :
          Cardinality(PrimsOf(i) \cap Rendered) =
              Flag(G_CANVAS[i].rect_shouldexist)
              + Flag(G_CANVAS[i].label_shouldexist)
              + 4 * Flag(G_CANVAS[i].handles_shouldexist)
    /\ \A i, j \in DOMAIN G_CANVAS : i # j => PrimsOf(i) \cap PrimsOf(j) = {}
    /\ \A c \in Rendered : \E i \in DOMAIN G_CANVAS : c \in PrimsOf(i)

\* Two items are drawn, one with handles, and canvas items made earlier
\* (the handles of the other item) have been swept.
C3_Witness ==
    /\ Cardinality(DOMAIN G_CANVAS) = 2
    /\ \E i \in DOMAIN G_CANVAS : Len(G_CANVAS[i].handles) = 4
    /\ canvas_next - 1 > Cardinality(DOMAIN canvas)
    /\ Cardinality(DOMAIN canvas) = 8

\* The live corner handles of item E.
LiveHandlesOf(E) ==
    IF E \in DOMAIN G_CANVAS
    THEN {c \in DOMAIN canvas :
             "handle" \in canvas[c].tags /\ c \in SeqToSet(G_CANVAS[E].handles)}
    ELSE {}

\* C4: between two events item E has live corner handles if and only if
\* the selection is exactly {E} and E has an attachment; every live handle
\* is one of that item.
C4_HandleVisibility ==
    /\ \A E \in ItemIds :
          (LiveHandlesOf(E) # {}) <=> (selection_set = {E} /\ E \in DOMAIN G_ATTACH)
    /\ \A c \in DOMAIN canvas :
          "handle" \in canvas[c].tags => \E E \in ItemIds : c \in LiveHandlesOf(E)

\* An attached item is selected together with another item, so it has no
\* handles, after it had them.
C4_Witness ==
    \E E \in DOMAIN G_ATTACH :
        /\ E \in selection_set
        /\ Cardinality(selection_set) = 2
        /\ LiveHandlesOf(E) = {}
        /\ canvas_next > 6

\* The canvas items that belong to no item's render intent.
Unowned == {c \in Rendered : \A i \in DOMAIN G_CANVAS : c \notin PrimsOf(i)}

\* C5: when a handler runs a synchronization pass, every canvas item left
\* behind by an item whose attachment and render intent were removed since
\* the pass before is deleted by that pass, and every item that keeps its
\* render intent keeps the same rectangle and label canvas items, live
\* (and the same handles when it still has handles).
C5_SweepAfterRemoval ==
    [][(synced' /\ nevents' = nevents + 1) =>
          /\ Unowned \cap DOMAIN canvas' = {}
          /\ \A i \in DOMAIN G_CANVAS \cap DOMAIN G_CANVAS' :
                /\ G_CANVAS'[i].rect = G_CANVAS[i].rect
                /\ G_CANVAS'[i].label = G_CANVAS[i].label
                /\ {G_CANVAS[i].rect, G_CANVAS[i].label} \subseteq DOMAIN canvas'
                /\ (G_CANVAS'[i].handles_shouldexist /\ G_CANVAS[i].handles # <<>>)
                      => /\ G_CANVAS'[i].handles = G_CANVAS[i].handles
                         /\ SeqToSet(G_CANVAS[i].handles) \subseteq DOMAIN canvas']_vars

\* Item a, drawn at start as canvas items 1 and 2, lost its attachment and
\* render intent; the pass of this handler deleted the two canvas items
\* and kept those of item b.
C5_Witness ==
    /\ synced
    /\ {1, 2} \subseteq last.live
    /\ last.att = {"b"}
    /\ DOMAIN G_CANVAS = {"b"}
    /\ {1, 2} \cap DOMAIN canvas = {}
    /\ PrimsOf("b") \subseteq (DOMAIN canvas \cap last.live)
    /\ PrimsOf("b") # {}

\* C6: after the Delete key with the selection {E} and E attached, E has
\* no attachment and no render intent, no drag targets E, the selection is
\* empty and E is still in the inventory.
C6_DeleteRemoves ==
    (last.op = "delete" /\ \E E \in last.att : last.sel = {E}) =>
        \A E \in last.sel :
            /\ E \notin DOMAIN G_ATTACH
            /\ E \notin DOMAIN G_CANVAS
            /\ G_DRAG.item_id # E
            /\ selection_set = {}
            /\ E \in DOMAIN G_INV

\* C7: after a press on empty canvas while the selection was {E} and E had
\* no attachment, E has an attachment whose bbox is the 40 by 40 square
\* centred at the world position of the press (the press position minus the
\* view centre, divided by the zoom, plus the camera), the selection is
\* still {E} and no drag is in progress.
C7_AttachAtPress ==
    \A E \in ItemIds :
        (last.op = "press" /\ last.top = NoId /\ last.sel = {E} /\ E \notin last.att) =>
            LET wx == ((last.x - g.canvas_view_w \div 2) * g.zoom_den) \div g.zoom_num
                      + g.cam_x
                wy == ((last.y - g.canvas_view_h \div 2) * g.zoom_den) \div g.zoom_num
                      + g.cam_y
            IN /\ E \in DOMAIN G_ATTACH
               /\ G_ATTACH[E].bbox = <<wx - 20, wy - 20, wx + 20, wy + 20>>
               /\ selection_set = {E}
               /\ G_DRAG.mode = None /\ G_DRAG.item_id = None

\* A press attached a box at zoom 1/2, where the world position of the
\* press differs from its canvas position.
C7_Witness ==
    \E E \in DOMAIN G_ATTACH :
        /\ last.op = "press" /\ last.top = NoId
        /\ last.sel = {E} /\ E \notin last.att
        /\ g.zoom_den = 2
        /\ G_ATTACH[E].bbox # <<last.x - 20, last.y - 20, last.x + 20, last.y + 20>>
        /\ G_ATTACH[E].bbox[3] - G_ATTACH[E].bbox[1] = 40

\* C8: after a press on a canvas item of item E the drag is an item drag
\* of E anchored at the press position, with the handle and its corner
\* recorded exactly when the canvas item is a corner handle, and the
\* selection is exactly {E} whatever it was before.
C8_PressSelectsAndDrags ==
    \A E \in DOMAIN G_CANVAS :
        (last.op = "press" /\ last.top \in PrimsOf(E)) =>
            /\ G_DRAG.mode = "item" /\ G_DRAG.item_id = E
            /\ G_DRAG.x = last.x /\ G_DRAG.y = last.y
            /\ IF "handle" \in canvas[last.top].tags
               THEN /\ G_DRAG.handle = last.top
                    /\ G_DRAG.corner \in SeqToSet(Corners) \cap canvas[last.top].tags
               ELSE G_DRAG.handle = NoId /\ G_DRAG.corner = None
            /\ selection_set = {E}

\* The press on empty canvas is the attach case: the selection is one item
\* that has no attachment.
AttachCase == \E E \in ItemIds : selection_set = {E} /\ E \notin DOMAIN G_ATTACH

\* C9: a press on empty canvas outside the attach case starts a pan
\* anchored at the press position and changes neither the selection, the
\* module highlight, the attachments nor the camera.
C9_PanPress ==
    [][(nevents' = nevents + 1 /\ last'.op = "press" /\ last'.top = NoId
        /\ ~AttachCase) =>
          /\ G_DRAG'.mode = "pan"
          /\ G_DRAG'.x = last'.x /\ G_DRAG'.y = last'.y
          /\ selection_set' = selection_set
          /\ g'.module_highlight = g.module_highlight
          /\ G_ATTACH' = G_ATTACH
          /\ g'.cam_x = g.cam_x /\ g'.cam_y = g.cam_y]_vars

\* A pan started while the one selected item was attached.
C9_Witness ==
    /\ last.op = "press" /\ last.top = NoId
    /\ \E E \in last.att : last.sel = {E}
    /\ G_DRAG.mode = "pan"
    /\ G_DRAG.x = last.x /\ G_DRAG.y = last.y
    /\ selection_set = last.sel

\* C10: a motion during an item drag without a handle moves the rectangle
\* of the dragged item on screen by the pointer delta, at any camera and
\* zoom, keeps the width and height of its bbox and makes the pointer
\* position the new anchor.  Stated for the deltas the zoom converts without
\* rounding.
C10_DragByPointerDelta ==
    [][(nevents' = nevents + 1 /\ last'.op = "motion"
        /\ G_DRAG.mode = "item" /\ G_DRAG.handle = NoId
        /\ G_DRAG.item_id \in DOMAIN G_CANVAS
        /\ ((last'.x - G_DRAG.x) * g.zoom_den) % g.zoom_num = 0
        /\ ((last'.y - G_DRAG.y) * g.zoom_den) % g.zoom_num = 0) =>
          LET E == G_DRAG.item_id
              dx == last'.x - G_DRAG.x
              dy == last'.y - G_DRAG.y
              r == G_CANVAS[E].rect
              old == canvas[r].coords
              b == G_ATTACH[E].bbox
              nb == G_ATTACH'[E].bbox
          IN /\ canvas'[r].coords =
                    <<old[1] + dx, old[2] + dy, old[3] + dx, old[4] + dy>>
             /\ nb[3] - nb[1] = b[3] - b[1]
             /\ nb[4] - nb[2] = b[4] - b[2]
             /\ G_DRAG'.x = last'.x /\ G_DRAG'.y = last'.y]_vars

\* C11: a motion during a drag of a corner handle adds the pointer delta to
\* the two bbox coordinates of that corner (nw: x0,y0; ne: x1,y0; se: x1,y1;
\* sw: x0,y1) and leaves the other two as they were, with no clamping.
C11_HandleDrag ==
    [][(nevents' = nevents + 1 /\ last'.op = "motion"
        /\ G_DRAG.mode = "item" /\ G_DRAG.handle # NoId
        /\ G_DRAG.item_id \in DOMAIN G_CANVAS) =>
          LET E == G_DRAG.item_id
              c == G_DRAG.corner
              dx == last'.x - G_DRAG.x
              dy == last'.y - G_DRAG.y
              b == G_ATTACH[E].bbox
              nb == G_ATTACH'[E].bbox
          IN /\ c \in {"nw", "ne", "se", "sw"}
             /\ c = "nw" => nb = <<b[1] + dx, b[2] + dy, b[3], b[4]>>
             /\ c = "ne" => nb = <<b[1], b[2] + dy, b[3] + dx, b[4]>>
             /\ c = "se" => nb = <<b[1], b[2], b[3] + dx, b[4] + dy>>
             /\ c = "sw" => nb = <<b[1] + dx, b[2], b[3], b[4] + dy>>]_vars

\* The se handle was dragged past the nw corner: the bbox is inverted on
\* both axes.
C11_Witness ==
    /\ last.op = "motion"
    /\ G_DRAG.mode = "item" /\ G_DRAG.handle # NoId /\ G_DRAG.corner = "se"
    /\ G_DRAG.item_id \in DOMAIN G_ATTACH
    /\ LET b == G_ATTACH[G_DRAG.item_id].bbox
       IN b[3] < b[1] /\ b[4] < b[2]

Abs(n) == IF n < 0 THEN -n ELSE n

\* C12: a motion during a pan changes the camera on each axis by minus the
\* pointer delta times zoom_den over zoom_num, and a delta of less than one
\* world unit (0 < |delta * zoom_den| < zoom_num), in either direction,
\* leaves the camera coordinate of that axis as it was.  The quotient is
\* stated where the division is exact.
C12_PanDropsSubUnit ==
    [][(nevents' = nevents + 1 /\ last'.op = "motion" /\ G_DRAG.mode = "pan") =>
          LET dx == (last'.x - G_DRAG.x) * g.zoom_den
              dy == (last'.y - G_DRAG.y) * g.zoom_den
              zn == g.zoom_num
          IN /\ dx % zn = 0 => g'.cam_x = g.cam_x - dx \div zn
             /\ dy % zn = 0 => g'.cam_y = g.cam_y - dy \div zn
             /\ (0 < Abs(dx) /\ Abs(dx) < zn) => g'.cam_x = g.cam_x
             /\ (0 < Abs(dy) /\ Abs(dy) < zn) => g'.cam_y = g.cam_y]_vars

\* The drag state as clear_drag leaves it.
Idle ==
    /\ G_DRAG.mode = None /\ G_DRAG.item_id = None
    /\ G_DRAG.corner = None /\ G_DRAG.handle = NoId

\* C13: a release leaves the drag state idle (mode, target, handle and
\* corner cleared), the hovered canvas item forgotten and the cursor
\* default, and changes no attachment, selection, highlight or camera;
\* while the drag state is idle a motion or hover event changes no
\* attachment and no camera coordinate, and only a press ends the idle
\* state.
C13_ReleaseToIdle ==
    [][(nevents' = nevents + 1) =>
          /\ last'.op = "release" =>
                /\ Idle'
                /\ g'.hover_canvas_item = NoId /\ cursor' = ""
                /\ G_ATTACH' = G_ATTACH
                /\ selection_set' = selection_set
                /\ g'.module_highlight = g.module_highlight
                /\ g'.cam_x = g.cam_x /\ g'.cam_y = g.cam_y
          /\ (G_DRAG.mode = None /\ last'.op \in {"motion", "hover"}) =>
                /\ G_ATTACH' = G_ATTACH
                /\ g'.cam_x = g.cam_x /\ g'.cam_y = g.cam_y
          /\ (G_DRAG.mode = None /\ last'.op # "press") => G_DRAG'.mode = None]_vars

\* The button was released during the drag of a handle that had resized
\* the item.
C13_Witness ==
    /\ last.op = "release"
    /\ last.mode = "item"
    /\ Idle
    /\ g.hover_canvas_item = NoId
    /\ \E E \in DOMAIN G_ATTACH :
          G_ATTACH[E].bbox[3] - G_ATTACH[E].bbox[1] # 40

\* C14: a motion during an item or handle drag whose target has no
\* attachment any more raises nothing, changes no attachment, selection or
\* camera coordinate, and leaves the drag state idle.
C14_VanishedTarget ==
    [][(nevents' = nevents + 1 /\ last'.op = "motion"
        /\ G_DRAG.mode = "item" /\ G_DRAG.item_id \notin DOMAIN G_ATTACH) =>
          /\ exc' = "none"
          /\ G_ATTACH' = G_ATTACH
          /\ selection_set' = selection_set
          /\ g'.cam_x = g.cam_x /\ g'.cam_y = g.cam_y
          /\ Idle']_vars

\* A motion arrived during the drag of an item after the only attachment
\* had been removed.
C14_Witness ==
    /\ last.op = "motion"
    /\ last.mode = "item"
    /\ last.att = {}
    /\ 1 \in last.live
    /\ exc = "none"
    /\ Idle

\* C15: a hover event changes no attachment, render intent, canvas item,
\* selection or drag state and nothing in g but the remembered hovered
\* canvas item (so not the highlight, the camera or the zoom); the cursor
\* becomes the resize cue on a handle, the move cue on another canvas item
\* and the default on empty canvas; when the canvas item under the pointer
\* is the remembered one, g and the cursor stay as they were.
C15_HoverIsCosmetic ==
    [][(nevents' = nevents + 1 /\ last'.op = "hover") =>
          /\ G_ATTACH' = G_ATTACH /\ G_CANVAS' = G_CANVAS /\ canvas' = canvas
          /\ selection_set' = selection_set
          /\ G_DRAG' = G_DRAG
          /\ g' = [g EXCEPT !.hover_canvas_item = last'.top]
          /\ IF last'.top = g.hover_canvas_item
             THEN g' = g /\ cursor' = cursor
             ELSE cursor' = IF last'.top = NoId THEN ""
                            ELSE IF "handle" \in canvas[last'.top].tags
                                 THEN "sizing" ELSE "fleur"]_vars

\* The pointer came over a corner handle of the selected item.
C15_Witness ==
    /\ last.op = "hover"
    /\ last.top \in DOMAIN canvas
    /\ "handle" \in canvas[last.top].tags
    /\ g.hover_canvas_item = last.top
    /\ cursor = "sizing"
    /\ selection_set # {}

\* The last two calls projected the registers from world to canvas and back
\* to world; last.prev holds the registers before the first of them.
RoundTrip ==
    /\ last.op = "project_to" /\ last.arg = "w" /\ last.cur.coord_type = "c"
    /\ last.prevop = "project_to" /\ last.prevarg = "c"
    /\ last.prev.coord_type = "w"
    /\ exc = "none"

\* C16 as stated: the point after world -> canvas -> world is the original
\* point when the camera is (0,0) and the zoom 1/1, and differs from it by
\* at most 1 on each axis at every other camera and zoom.
C16_Original ==
    RoundTrip =>
        /\ (g.cam_x = 0 /\ g.cam_y = 0 /\ g.zoom_num = 1 /\ g.zoom_den = 1)
              => (CUR.x = last.prev.x /\ CUR.y = last.prev.y)
        /\ Abs(CUR.x - last.prev.x) <= 1
        /\ Abs(CUR.y - last.prev.y) <= 1

\* C16 as amended: the point after world -> canvas -> world is never
\* greater than the original on either axis and falls short of it by at
\* most (zoom_den + zoom_num - 2) / zoom_num: it is the original whenever
\* zoom_den is 1, at any camera and viewport, and within 1 of it whenever
\* zoom_den <= zoom_num + 1.
C16_Amended ==
    RoundTrip =>
        LET ex == last.prev.x - CUR.x
            ey == last.prev.y - CUR.y
            zn == g.zoom_num
            zd == g.zoom_den
        IN /\ 0 <= ex /\ ex * zn <= zd + zn - 2
           /\ 0 <= ey /\ ey * zn <= zd + zn - 2
           /\ zd = 1 => (ex = 0 /\ ey = 0)
           /\ zd <= zn + 1 => (ex <= 1 /\ ey <= 1)

\* At zoom 1/3 the round trip lost 2 on one axis.
C16_Witness ==
    /\ RoundTrip
    /\ g.zoom_num = 1 /\ g.zoom_den = 3
    /\ (last.prev.x - CUR.x = 2 \/ last.prev.y - CUR.y = 2)

\* C17: project_to with the space the registers are already in leaves the
\* registers and the space tag as they were and raises nothing; with any
\* source and target other than world to canvas or canvas to world it
\* raises and leaves the registers and the tag as they were.
C17_ProjectGuards ==
    last.op = "project_to" =>
        LET src == last.cur.coord_type
            dst == last.arg
        IN IF src = dst
           THEN CUR = last.cur /\ exc = "none"
           ELSE IF <<src, dst>> \in {<<"w", "c">>, <<"c", "w">>}
                THEN exc = "none" /\ CUR.coord_type = dst
                ELSE exc = "RuntimeError" /\ CUR = last.cur

\* Registers that had been projected to canvas space were asked to go to
\* a space that does not exist.
C17_Witness ==
    /\ last.op = "project_to" /\ last.arg = "s"
    /\ last.cur.coord_type = "c"
    /\ last.prevop = "project_to" /\ last.prev.coord_type = "w"
    /\ exc = "RuntimeError"
    /\ CUR = last.cur

\* C18: a pop_pt that succeeds gives the point register and the space tag
\* the values they had at the push_pt it matches, and a pop_rect does so
\* for the rect register, whatever calls and balanced push/pop pairs came
\* in between, and takes one entry off the stack; a pop on an empty stack
\* raises and changes neither the registers nor the stack.
C18_StackIsLIFO ==
    /\ (last.op = "pop_pt" /\ exc = "none") =>
          /\ CUR.x = last.popped.x /\ CUR.y = last.popped.y
          /\ CUR.coord_type = last.popped.coord_type
          /\ S = SubSeq(last.stack, 1, Len(last.stack) - 1)
    /\ (last.op = "pop_rect" /\ exc = "none") =>
          /\ CUR.x0 = last.popped.x0 /\ CUR.y0 = last.popped.y0
          /\ CUR.x1 = last.popped.x1 /\ CUR.y1 = last.popped.y1
          /\ CUR.coord_type = last.popped.coord_type
          /\ S = SubSeq(last.stack, 1, Len(last.stack) - 1)
    /\ (last.op \in {"pop_pt", "pop_rect"} /\ last.stack = <<>>) =>
          /\ exc = "RuntimeError"
          /\ CUR = last.cur
          /\ S = <<>>

\* push_pt, a projection to canvas space, a push_rect / pop_rect pair and
\* then pop_pt: the point and the tag are back to their world values.
C18_Witness ==
    /\ last.op = "pop_pt" /\ exc = "none"
    /\ last.prevop = "pop_rect"
    /\ last.cur.coord_type = "c" /\ CUR.coord_type = "w"
    /\ last.cur.x # CUR.x
    /\ CUR.x = 5 /\ CUR.y = -4
    /\ S = <<>>

\* The state after one more run of the rules over every item.
RulesRunOnce == foreach_item_apply_rules(Pack)

\* C19: running the rules over every item twice, with the attachments, the
\* inventory, the selection and the highlight untouched in between, leaves
\* every item's render intent after the second run as it was after the
\* first; and the intent a handler's synchronization pass left is what one
\* more run gives.
C19_RulesIdempotent ==
    /\ foreach_item_apply_rules(RulesRunOnce).G_CANVAS = RulesRunOnce.G_CANVAS
    /\ synced => RulesRunOnce.G_CANVAS = G_CANVAS

\* After a synchronization pass, one item carries the selection highlight
\* and its handles while another carries the module highlight.
C19_Witness ==
    /\ synced
    /\ \E i, j \in DOMAIN G_CANVAS :
          /\ G_CANVAS[i].rect_outline = "yellow"
          /\ G_CANVAS[i].handles_shouldexist
          /\ G_CANVAS[j].rect_outline = "red"
          /\ G_CANVAS[j].rect_width = 3

\* The highlighted module is one of the modules of item i.
InHighlightedModule(i) ==
    /\ g.module_highlight # None
    /\ g.module_highlight \in SeqToSet(G_INV[i].modules)

\* C20: the rules run in the order default appearance, module highlight,
\* selection highlight, handles, so that after a synchronization pass a selected
\* item has the yellow outline of width 3 even when it is in the
\* highlighted module, an unselected item of the highlighted module has the
\* red outline of width 3, and an item that is neither has the white
\* outline of width 1.
C20_SelectionOverridesModule ==
    synced =>
    \A i \in DOMAIN G_CANVAS :
        /\ i \in selection_set =>
              /\ G_CANVAS[i].rect_outline = "yellow"
              /\ G_CANVAS[i].rect_width = 3
        /\ (i \notin selection_set /\ InHighlightedModule(i)) =>
              /\ G_CANVAS[i].rect_outline = "red"
              /\ G_CANVAS[i].rect_width = 3
        /\ (i \notin selection_set /\ ~InHighlightedModule(i)) =>
              /\ G_CANVAS[i].rect_outline = "white"
              /\ G_CANVAS[i].rect_width = 1

\* A selected item of the highlighted module is yellow while an unselected
\* item outside the module is white.
C20_Witness ==
    /\ synced
    /\ \E i, j \in DOMAIN G_CANVAS :
          /\ i \in selection_set /\ InHighlightedModule(i)
          /\ G_CANVAS[i].rect_outline = "yellow"
          /\ j \notin selection_set /\ ~InHighlightedModule(j)
          /\ G_CANVAS[j].rect_outline = "white"
          /\ G_CANVAS[j].rect_width = 1

\* The outline rule_module_highlight gives.
ModuleOutline(i) ==
    G_CANVAS[i].rect_outline = "red" /\ G_CANVAS[i].rect_width = 3

\* A tree row that shows one inventory item: a "leaf::<module>::<id>" row or
\* the row of an item in no module.
ItemRow(iid) == iid.kind \in {"leaf", "bare"}

\* C21: selecting the row of module M in the tree leaves the selection
\* empty and the highlight equal to M, with the module outline on exactly
\* the attached items whose modules list contains M; selecting the row of
\* an item sets the highlight to None and leaves no item with the module
\* outline.
C21_TreeSelect ==
    /\ (last.op = "tree" /\ last.iid.kind = "module") =>
          /\ selection_set = {}
          /\ g.module_highlight = last.iid.module
          /\ \A i \in DOMAIN G_CANVAS :
                ModuleOutline(i) <=> last.iid.module \in SeqToSet(G_INV[i].modules)
    /\ (last.op = "tree" /\ ItemRow(last.iid)) =>
          /\ g.module_highlight = None
          /\ \A i \in DOMAIN G_CANVAS : ~ModuleOutline(i)

\* The attachments a file describes to a program with the inventory G_INV:
\* bbox and color of every entry whose id is in the inventory.
FileAttachments(file) ==
    LET es == {file.entries[k] : k \in 1..Len(file.entries)}
        kept == {e \in es : e.id \in DOMAIN G_INV /\ e.id \notin ReservedKeys}
    IN [i \in {e.id : e \in kept} |->
          LET e == CHOOSE e \in kept : e.id = i
          IN [bbox |-> e.bbox,
              color |-> IF e.color = None THEN "#88ccff" ELSE e.color]]

\* C22: after <Control-o> with an attachments.json on disk, the attachments
\* are those of the file: bbox and color of every saved id that is in the
\* inventory, nothing for a saved id that is not, nothing for the reserved
\* keys, and no attachment the file does not have.
C22_LoadGivesSavedLayout ==
    (last.op = "load" /\ attachments_json.exists) =>
        G_ATTACH = FileAttachments(attachments_json)

\* A press that attaches: the state attach_new_square has reached once it
\* has written G_ATTACH.
AttachedFirst ==
    LET s0 == dispatch_event(Pack, MouseEvent(<<last'.x, last'.y>>), last'.top)
        item_id == only_selected(s0)
        m == attach_new_square_model(s0)
    IN /\ item_id \in DOMAIN m.G_ATTACH
       /\ item_id \notin DOMAIN m.G_CANVAS
       /\ G_ATTACH' = m.G_ATTACH
       /\ item_id \in DOMAIN G_CANVAS'

\* The ids with an attachment are the ids with a render intent.
Paired == DOMAIN G_ATTACH = DOMAIN G_CANVAS

\* A step in which a pair is created / destroyed.
PairCreated == DOMAIN G_ATTACH' \ DOMAIN G_ATTACH # {}
PairDestroyed == last'.op = "remove"

StoredRect(D) == IF D.rect = NoId THEN {} ELSE {D.rect}
StoredLabel(D) == IF D.label = NoId THEN {} ELSE {D.label}
StoredHandles(D) == SeqToSet(D.handles)

\* Part P of item i keeps its canvas items over the step: what was stored
\* is stored and live after it.
KeepsPart(before, after, shouldexist) ==
    (before # {} /\ shouldexist) => (after = before /\ after \subseteq DOMAIN canvas')

\* Canvas item c, made in the step, is stored for a part of an item whose
\* flag is set and which had nothing stored before the step.
MadeForPart(c, i, before, after, shouldexist) ==
    /\ c \in after
    /\ shouldexist
    /\ (i \in DOMAIN G_CANVAS => before = {})

NoIntent ==
    [rect |-> NoId, label |-> NoId, handles |-> <<>>]

IntentBefore(i) == IF i \in DOMAIN G_CANVAS THEN G_CANVAS[i] ELSE NoIntent

\* C24: over a handler that runs a synchronization pass, a rectangle, a
\* label or a group of handles that was stored before and whose flag is set
\* in the pass is the same canvas item(s) after it, still live; and every
\* canvas item made in the handler is stored for a part whose flag is set
\* and which had none stored.
C24_PrimitiveIdentity ==
    [][synced' =>
        /\ \A i \in DOMAIN G_CANVAS \cap DOMAIN G_CANVAS' :
              /\ KeepsPart(StoredRect(G_CANVAS[i]), StoredRect(G_CANVAS'[i]),
                           G_CANVAS'[i].rect_shouldexist)
              /\ KeepsPart(StoredLabel(G_CANVAS[i]), StoredLabel(G_CANVAS'[i]),
                           G_CANVAS'[i].label_shouldexist)
              /\ KeepsPart(StoredHandles(G_CANVAS[i]), StoredHandles(G_CANVAS'[i]),
                           G_CANVAS'[i].handles_shouldexist)
        /\ \A c \in DOMAIN canvas' \ DOMAIN canvas :
              \E i \in DOMAIN G_CANVAS' :
                  \/ MadeForPart(c, i, StoredRect(IntentBefore(i)),
                                 StoredRect(G_CANVAS'[i]),
                                 G_CANVAS'[i].rect_shouldexist)
                  \/ MadeForPart(c, i, StoredLabel(IntentBefore(i)),
                                 StoredLabel(G_CANVAS'[i]),
                                 G_CANVAS'[i].label_shouldexist)
                  \/ MadeForPart(c, i, StoredHandles(IntentBefore(i)),
                                 StoredHandles(G_CANVAS'[i]),
                                 G_CANVAS'[i].handles_shouldexist)]_vars

\* A drag motion has moved an item whose rectangle, label and four handles
\* were live before the motion and are the ones stored after it.
C24_Witness ==
    /\ last.op = "motion" /\ last.mode = "item" /\ synced /\ exc = "none"
    /\ \E i \in DOMAIN G_CANVAS :
          /\ G_CANVAS[i].rect \in last.live
          /\ G_CANVAS[i].label \in last.live
          /\ Len(G_CANVAS[i].handles) = 4
          /\ SeqToSet(G_CANVAS[i].handles) \subseteq last.live
          /\ canvas[G_CANVAS[i].rect].coords # <<80, 30, 120, 70>>
          /\ canvas[G_CANVAS[i].rect].coords = G_ATTACH[i].bbox

\* The current state with another selection and another highlight, before
\* any synchronization pass has run for them.
Unsettled(sel, m) ==
    [Pack EXCEPT !.selection_set = sel, !.g.module_highlight = m]

\* t is s but for the render intents, the canvas, the registers and the
\* note that a pass has run.
OnlyRenderChanged(s, t) ==
    [t EXCEPT !.G_CANVAS = s.G_CANVAS, !.canvas = s.canvas,
              !.canvas_next = s.canvas_next, !.CUR = s.CUR,
              !.synced = s.synced] = s

\* t is s but for the render intent of item i.
OnlyIntentChanged(s, t, i) ==
    [t EXCEPT !.G_CANVAS[i] = s.G_CANVAS[i]] = s

\* C25: a synchronization pass leaves the attachments, the selection, the
\* highlight, the camera, the zoom, the viewport and the drag state as
\* they were (it writes render intents, canvas items and registers only),
\* and each rule applied to an item writes that item's render intent only.
C25_SyncFrame ==
    \A sel \in SUBSET ItemIds, m \in HighlightArgs :
        /\ OnlyRenderChanged(Unsettled(sel, m), sync_all(Unsettled(sel, m)))
        /\ \A i \in DOMAIN G_CANVAS, k \in 1..Len(RULES) :
              OnlyIntentChanged(iterate_item(Unsettled(sel, m), i),
                                RunRule(RULES[k], iterate_item(Unsettled(sel, m), i)),
                                i)

\* Two items are drawn after a pass, and a pass for another selection and
\* highlight rewrites render intents and makes canvas items.
C25_Witness ==
    /\ synced
    /\ Cardinality(DOMAIN G_CANVAS) = 2
    /\ \E sel \in SUBSET ItemIds, m \in HighlightArgs :
          /\ sync_all(Unsettled(sel, m)).G_CANVAS # G_CANVAS
          /\ sync_all(Unsettled(sel, m)).canvas_next > canvas_next
          /\ sync_all(Unsettled(sel, m)).CUR # CUR

\* What the handlers treat as the model: the attachments, the selection,
\* the highlight, the camera and the viewport size.
Model ==
    <<G_ATTACH, selection_set, g.module_highlight, g.cam_x, g.cam_y,
      g.canvas_view_w, g.canvas_view_h>>

\* Every render intent is what the rules give for the current model, and
\* rendering once more neither makes, deletes nor changes a canvas item.
Settled ==
    /\ DOMAIN G_CANVAS = DOMAIN G_ATTACH
    /\ RulesRunOnce.G_CANVAS = G_CANVAS
    /\ \A i \in DOMAIN G_CANVAS :
          /\ G_CANVAS[i].rect_coords = G_ATTACH[i].bbox
          /\ G_CANVAS[i].handles_shouldexist = (selection_set = {i})
    /\ render_all(Pack).canvas = canvas
    /\ render_all(Pack).G_CANVAS = G_CANVAS

C27_SingleSelection ==
    /\ Cardinality(selection_set) <= 1
    /\ \A i \in selection_set : is_only_selected(iterate_item(Pack, i))
    /\ \A i \in selection_set \cap DOMAIN G_CANVAS :
          G_CANVAS[i].handles_shouldexist

\* With one item selected, a press on another drawn item has selected that
\* one in its place.
C27_Witness ==
    /\ last.op = "press" /\ last.top # NoId
    /\ Cardinality(last.sel) = 1
    /\ Cardinality(selection_set) = 1
    /\ selection_set # last.sel
    /\ selection_set \subseteq DOMAIN G_CANVAS

\* The registers after loading the bbox of item i, and after projecting
\* them to the canvas and back to the world.
WorldRect(i) == load_rect(iterate_item(Pack, i), "attachment")
CanvasRect(i) == project_to(WorldRect(i), "c")
WorldAgain(i) == project_to(CanvasRect(i), "w")

\* The rectangle r moved by (dx, dy).
Translated(r, dx, dy) == <<r[1] + dx, r[2] + dy, r[3] + dx, r[4] + dy>>

\* C28: the zoom is 1/1 in every reachable state; projecting a bbox to the
\* canvas moves it by (viewport centre - camera) and nothing else, and
\* projecting the result back to the world gives the bbox again.
C28_ZoomIsOne ==
    /\ g.zoom_num = 1 /\ g.zoom_den = 1
    /\ \A i \in DOMAIN G_ATTACH :
          /\ get_xyxy(CanvasRect(i)) =
                 Translated(G_ATTACH[i].bbox,
                            (g.canvas_view_w \div 2) - g.cam_x,
                            (g.canvas_view_h \div 2) - g.cam_y)
          /\ get_xyxy(WorldAgain(i)) = G_ATTACH[i].bbox
          /\ WorldAgain(i).exc = "none"

\* The camera has been panned away from the origin in a window of non-zero
\* size, and an attachment projects to other coordinates than its bbox.
C28_Witness ==
    /\ last.op = "motion" /\ last.mode = "pan"
    /\ g.cam_x # 0
    /\ g.canvas_view_w \div 2 # 0
    /\ \E i \in DOMAIN G_ATTACH :
          get_xyxy(CanvasRect(i)) # G_ATTACH[i].bbox

\* C29: the drag state is well formed in every reachable state: the mode
\* is None, "item" or "pan"; with mode None or "pan" no item, handle or
\* corner is recorded; with mode "item" an item of the inventory is
\* recorded; a corner is recorded exactly when a handle is, and it is one
\* of nw, ne, se, sw.
C29_DragWellFormed ==
    /\ G_DRAG.mode \in {None, "item", "pan"}
    /\ G_DRAG.mode \in {None, "pan"} =>
          /\ G_DRAG.item_id = None
          /\ G_DRAG.handle = NoId
          /\ G_DRAG.corner = None
    /\ G_DRAG.mode = "item" => G_DRAG.item_id \in ItemIds
    /\ (G_DRAG.corner # None) <=> (G_DRAG.handle # NoId)
    /\ G_DRAG.corner # None => G_DRAG.corner \in SeqToSet(Corners)

\* A press on a handle has started an item drag with that handle and its
\* corner recorded.
C29_Witness ==
    /\ last.op = "press"
    /\ G_DRAG.mode = "item"
    /\ G_DRAG.item_id \in DOMAIN G_CANVAS
    /\ G_DRAG.handle # NoId
    /\ G_DRAG.handle \in SeqToSet(G_CANVAS[G_DRAG.item_id].handles)
    /\ G_DRAG.corner \in SeqToSet(Corners)

\* The step is a motion event.
MotionStep == last'.op = "motion" /\ nevents' = nevents + 1

\* Only the anchor of the drag state may differ after the step.
OnlyAnchorMoved == G_DRAG' = [G_DRAG EXCEPT !.x = G_DRAG'.x, !.y = G_DRAG'.y]

\* Only the camera position may differ in g after the step.
OnlyCameraMoved == g' = [g EXCEPT !.cam_x = g'.cam_x, !.cam_y = g'.cam_y]

\* C30: a motion event changes only what its drag mode owns.  It never
\* changes the selection, the highlight, the set of attachments or a
\* colour.  In mode "pan" it leaves every attachment as it was and changes
\* at most the camera and the anchor.  In mode "item" it leaves the camera
\* and every attachment but the drag target as they were and changes at
\* most the target's bbox and the anchor.  With no drag it leaves the
\* attachments, the render intents, the canvas, the drag state, the
\* selection and g as they were.
C30_MotionFrame ==
    [][MotionStep =>
          /\ selection_set' = selection_set
          /\ g'.module_highlight = g.module_highlight
          /\ DOMAIN G_ATTACH' = DOMAIN G_ATTACH
          /\ \A i \in DOMAIN G_ATTACH : G_ATTACH'[i].color = G_ATTACH[i].color
          /\ G_DRAG.mode = "pan" =>
                /\ G_ATTACH' = G_ATTACH
                /\ OnlyCameraMoved
                /\ OnlyAnchorMoved
          /\ G_DRAG.mode = "item" =>
                /\ g' = g
                /\ OnlyAnchorMoved
                /\ \A i \in DOMAIN G_ATTACH \ {G_DRAG.item_id} :
                      G_ATTACH'[i] = G_ATTACH[i]
          /\ G_DRAG.mode = None =>
                UNCHANGED <<G_ATTACH, G_CANVAS, G_KEYS, G_DRAG, g,
                            selection_set, canvas, canvas_next, cursor,
                            attachments_json>>
    ]_vars

\* With two attachments, a motion in mode "item" has dragged a handle of
\* one of them and changed its size, and the anchor is at the pointer.
C30_Witness ==
    /\ last.op = "motion" /\ last.mode = "item" /\ exc = "none"
    /\ Cardinality(DOMAIN G_ATTACH) = 2
    /\ G_DRAG.handle # NoId
    /\ G_DRAG.item_id \in DOMAIN G_ATTACH
    /\ LET b == G_ATTACH[G_DRAG.item_id].bbox
       IN b[3] - b[1] # b[4] - b[2]
    /\ <<G_DRAG.x, G_DRAG.y>> = <<last.x, last.y>>

====
